---------------------------- MODULE Spec2Model ----------------------------
(***************************************************************************)
(* A model of deno_rsa: the PEM/DER private key decoder (RsaKey) and the   *)
(* RS256 signature engine (Rs256).                                         *)
(*                                                                         *)
(* Representation.  The TypeScript code threads bytes around as text:      *)
(*   - a "hex array" is an array of two-character upper-case hex strings   *)
(*     ("3A"); here a sequence of octets <<hi, lo>> with hi, lo in 0..15;  *)
(*   - a "hex string" is the text "0x" followed by hex digits; here the    *)
(*     sequence of its digits (each in 0..15) after the "0x";              *)
(*   - an "octet array" of Rs256 is an array of strings "0xHH"; here again *)
(*     a sequence of octets <<hi, lo>>;                                    *)
(*   - a bigint is a sequence of base-256 limbs, least significant first,  *)
(*     without high zero limbs (so zero is <<>>);                          *)
(*   - a JavaScript array index or length is an integer, or NaN.           *)
(* JavaScript indices are 0-based, TLA+ sequences 1-based: At(a, i) reads  *)
(* a[i] of the code.                                                       *)
(***************************************************************************)
EXTENDS Integers, Sequences, FiniteSets, TLC

(***************************************************************************)
(* Outcomes of a call: a returned value, a thrown error, or no return.     *)
(***************************************************************************)
Ok(v) == [kind |-> "ok", val |-> v]

Throw(e) == [kind |-> "throw", err |-> e]

Diverges == [kind |-> "diverges"]

IsOk(o) == o.kind = "ok"

\* values of JavaScript
Undefined == [type |-> "undefined"]

JsBoolean(b) == [type |-> "boolean", value |-> b]

(***************************************************************************)
(* JavaScript numbers used as indices and lengths.                         *)
(***************************************************************************)
NaN == -1000000

LenCap == 536870912

Min2(a, b) == IF a < b THEN a ELSE b

Max2(a, b) == IF a > b THEN a ELSE b

JsAdd(a, b) == IF a = NaN \/ b = NaN THEN NaN ELSE Min2(a + b, LenCap)

JsToInteger(v) == IF v = NaN THEN 0 ELSE v

JsRelative(v, n) == IF v < 0 THEN Max2(n + v, 0) ELSE Min2(v, n)

\* Array.prototype.slice(start, end)
JsSlice(arr, start, end) ==
    LET n == Len(arr)
        a == JsRelative(JsToInteger(start), n)
        b == JsRelative(JsToInteger(end), n)
    IN  IF a < b THEN SubSeq(arr, a + 1, b) ELSE <<>>

\* Array.prototype.slice(start)
JsSliceFrom(arr, start) == JsSlice(arr, start, Len(arr))

\* Array.prototype.indexOf(x, from), from >= 0 or NaN
JsIndexOf(arr, x, from) ==
    LET S == {i \in (JsToInteger(from) + 1)..Len(arr) : arr[i] = x}
    IN  IF S = {} THEN -1 ELSE (CHOOSE m \in S : \A j \in S : m <= j) - 1

\* arr[i] is defined
Has(arr, i) == i # NaN /\ i >= 0 /\ i < Len(arr)

At(arr, i) == arr[i + 1]

(***************************************************************************)
(* Hex text.                                                               *)
(***************************************************************************)

\* bin.charCodeAt(i).toString(16), padded with "0" and upper-cased
ByteToOctet(b) == <<b \div 16, b % 16>>

OctetValue(o) == o[1] * 16 + o[2]

\* the digits of the octets of a hex array, in order
Flatten(octets) ==
    [i \in 1..(2 * Len(octets)) |->
        octets[(i + 1) \div 2][IF i % 2 = 1 THEN 1 ELSE 2]] \o <<>>

\* hexToString: "0x" followed by every octet of the array
hexToString(array) == Flatten(array)

StripLeadingZeros(s) ==
    LET S == {i \in 1..Len(s) : s[i] # 0}
    IN  IF S = {} THEN <<>>
        ELSE SubSeq(s, CHOOSE m \in S : \A j \in S : m <= j, Len(s))

\* parseInt of one character: a decimal digit, else NaN
ParseIntChar(d) == IF d <= 9 THEN d ELSE NaN

\* parseInt("0x" + digits) as an index or a length (saturating at LenCap)
RECURSIVE ParseLen(_, _)
ParseLen(digits, acc) ==
    IF digits = <<>> THEN acc
    ELSE ParseLen(Tail(digits),
                  IF acc >= LenCap \div 16 THEN LenCap
                  ELSE acc * 16 + Head(digits))

ParseIntLen(digits) == IF digits = <<>> THEN NaN ELSE ParseLen(digits, 0)

(***************************************************************************)
(* parseInt("0x" + digits) as a value: a JavaScript number, that is an     *)
(* IEEE-754 double.  An integer of at most 53 bits is exact; a longer one  *)
(* is rounded to 53 significant bits (ties to even); past 1024 bits it is  *)
(* Infinity.  The number is kept as the hex digits of its integer value.   *)
(***************************************************************************)
MantissaBits == 53

MaxDoubleBits == 1024

NibbleBits(d) == <<d \div 8, (d \div 4) % 2, (d \div 2) % 2, d % 2>>

BitsOf(digits) ==
    [i \in 1..(4 * Len(digits)) |->
        NibbleBits(digits[(i + 3) \div 4])[((i - 1) % 4) + 1]] \o <<>>

Zeros(n) == [i \in 1..n |-> 0] \o <<>>

BitsToDigits(bits) ==
    LET pad == (4 - (Len(bits) % 4)) % 4
        b == Zeros(pad) \o bits
    IN  [i \in 1..(Len(b) \div 4) |->
            8 * b[4 * i - 3] + 4 * b[4 * i - 2] + 2 * b[4 * i - 1] + b[4 * i]] \o <<>>

IncBits(bits) ==
    LET Z == {i \in 1..Len(bits) : bits[i] = 0}
    IN  IF Z = {} THEN <<1>> \o Zeros(Len(bits))
        ELSE LET j == CHOOSE m \in Z : \A i \in Z : i <= m
             IN  [i \in 1..Len(bits) |->
                     IF i < j THEN bits[i] ELSE IF i = j THEN 1 ELSE 0] \o <<>>

RoundToDouble(bits) ==
    IF Len(bits) <= MantissaBits THEN bits
    ELSE LET top == SubSeq(bits, 1, MantissaBits)
             rest == SubSeq(bits, MantissaBits + 1, Len(bits))
             up == rest[1] = 1 /\ (top[MantissaBits] = 1
                                   \/ \E i \in 2..Len(rest) : rest[i] = 1)
         IN  (IF up THEN IncBits(top) ELSE top) \o Zeros(Len(rest))

JsNaN == [num |-> "NaN", digits |-> <<>>]

JsInfinity == [num |-> "Infinity", digits |-> <<>>]

JsFinite(digits) == [num |-> "finite", digits |-> digits]

ParseIntHex(digits) ==
    IF digits = <<>> THEN JsNaN
    ELSE LET r == RoundToDouble(StripLeadingZeros(BitsOf(digits)))
         IN  IF Len(r) > MaxDoubleBits THEN JsInfinity
             ELSE JsFinite(BitsToDigits(r))

\* hexToLumpedInt: parseInt(hexToString(array))
hexToLumpedInt(array) == ParseIntHex(hexToString(array))

\* hexToUintDot: the octets as decimal numbers joined by dots
hexToUintDot(array) == [i \in 1..Len(array) |-> OctetValue(array[i])] \o <<>>

(***************************************************************************)
(* constTimeCompStr.  A string is the sequence of its characters.          *)
(***************************************************************************)
\* String.prototype.charAt: the empty string past the end
CharAt(str, i) == IF i < Len(str) THEN str[i + 1] ELSE ""

\* one iteration of the loop over the characters: i is the loop variable
ConstTimeStep(x, y, st) ==
    [i |-> st.i + 1,
     mismatch |-> IF CharAt(x, st.i) # CharAt(y, st.i) THEN st.mismatch + 1
                  ELSE st.mismatch]

\* a loop that is left at the first mismatched character
RECURSIVE ConstTimeLoopEarlyExit(_, _, _)
ConstTimeLoopEarlyExit(x, y, st) ==
    IF st.i < Len(x) /\ st.mismatch = 0
    THEN ConstTimeLoopEarlyExit(x, y, ConstTimeStep(x, y, st))
    ELSE st

\* the loop for (var i = 0; i < x.length; i++): the state it ends in
RECURSIVE ConstTimeLoop(_, _, _)
ConstTimeLoop(x, y, st) ==
    IF st.i < Len(x) THEN ConstTimeLoop(x, y, ConstTimeStep(x, y, st))
    ELSE st

\* the comparison without the check of the lengths
constTimeCompStrUnchecked(x, y) ==
    IF ConstTimeLoop(x, y, [i |-> 0, mismatch |-> 0]).mismatch > 0
    THEN JsBoolean(FALSE)
    ELSE JsBoolean(TRUE)

constTimeCompStr(x, y) ==
    IF Len(x) = Len(y)
    THEN IF ConstTimeLoop(x, y, [i |-> 0, mismatch |-> 0]).mismatch > 0
         THEN JsBoolean(FALSE)
         ELSE JsBoolean(TRUE)
    ELSE JsBoolean(FALSE)

(***************************************************************************)
(* RsaKey: the DER decoder.                                                *)
(***************************************************************************)
TagInteger == <<0, 2>>

TagSequence == <<3, 0>>

\* getLength as it would be without the increment of octetCount for the
\* indicating length octet
getLengthUncounted(hexArray, pos) ==
    LET Long(octetCount) ==
            Ok(<<ParseIntLen(Flatten(JsSlice(hexArray, pos + 2,
                                             JsAdd(pos + 2, octetCount)))),
                 octetCount>>)
        First(firstLen) ==
            IF firstLen[1] = 8 THEN Long(ParseIntChar(firstLen[2]))
            ELSE Ok(<<ParseIntLen(firstLen), 1>>)
    IN  IF ~Has(hexArray, JsAdd(pos, 1)) THEN Throw("TypeError")
        ELSE First(At(hexArray, pos + 1))

\* getLength: [length, number of length octets] of the type at pos, or a
\* TypeError when there is no octet after pos (firstLen is undefined)
getLength(hexArray, pos) ==
    LET Long(octetCount) ==
            Ok(<<ParseIntLen(Flatten(JsSlice(hexArray, pos + 2,
                                             JsAdd(pos + 2, octetCount)))),
                 JsAdd(octetCount, 1)>>)
        First(firstLen) ==
            IF firstLen[1] = 8 THEN Long(ParseIntChar(firstLen[2]))
            ELSE Ok(<<ParseIntLen(firstLen), 1>>)
    IN  IF ~Has(hexArray, JsAdd(pos, 1)) THEN Throw("TypeError")
        ELSE First(At(hexArray, pos + 1))

\* slice: the content octets of the type at identifierPos
slice(array, identifierPos, lengthArr) ==
    LET start == JsAdd(JsAdd(identifierPos, 1), lengthArr[2])
        end == JsAdd(start, lengthArr[1])
    IN  JsSlice(array, start, end)

\* the lengths and the hex array of the value at i, as extractValues takes them
Field(array, i) ==
    LET Take(lengths) ==
            IF ~IsOk(lengths) THEN lengths
            ELSE Ok([lengths |-> lengths.val,
                     hexArr |-> slice(array, i, lengths.val)])
    IN  Take(getLength(array, i))

\* One iteration of the loop of extractValues on a non-empty array:
\* the next array and output, or the error the iteration throws.
ExtractStep(array, output) ==
    LET Cut(i, lengths, j) ==
            Ok([array |-> JsSliceFrom(array, j),
                output |-> Append(output, slice(array, i, lengths)),
                j |-> j])
        Take(i, lengths) ==
            IF ~IsOk(lengths) THEN lengths
            ELSE IF ~Has(array, i) THEN Throw("TypeError")
            ELSE Cut(i, lengths.val,
                     JsAdd(JsAdd(JsAdd(i, 1), lengths.val[2]), lengths.val[1]))
        Find(i) == Take(i, getLength(array, i))
    IN  Find(JsIndexOf(array, TagInteger, 0))

\* extractValues: the loop runs while the array is non-empty.  An
\* iteration whose cutoff j is NaN leaves the array as it is (slice(NaN) is
\* slice(0)), so the same iteration repeats for ever.
RECURSIVE ExtractLoop(_, _)
ExtractNext(step) ==
    IF ~IsOk(step) THEN step
    ELSE IF step.val.j = NaN THEN Diverges
    ELSE ExtractLoop(step.val.array, step.val.output)

ExtractLoop(array, output) ==
    IF Len(array) = 0 THEN Ok(output)
    ELSE ExtractNext(ExtractStep(array, output))

extractValues(array) == ExtractLoop(array, <<>>)

\* decodeRsaKey: nine INTEGER values of the key, after the first "02"
decodeRsaKey(key) ==
    LET Build(hexArray) ==
            IF Len(hexArray) < 9 THEN Throw("TypeError")
            ELSE Ok([version |-> hexToLumpedInt(hexArray[1]),
                     modulus |-> hexToString(JsSliceFrom(hexArray[2], 1)),
                     publicExponent |-> hexToLumpedInt(hexArray[3]),
                     privateExponent |-> hexToString(hexArray[4]),
                     prime1 |-> hexToString(hexArray[5]),
                     prime2 |-> hexToString(hexArray[6]),
                     exponent1 |-> hexToString(hexArray[7]),
                     exponent2 |-> hexToString(hexArray[8]),
                     coefficient |-> hexToString(hexArray[9])])
        Extracted(hexArray) == IF ~IsOk(hexArray) THEN hexArray ELSE Build(hexArray.val)
    IN  Extracted(extractValues(JsSliceFrom(key, JsIndexOf(key, TagInteger, 0))))

\* base64ToHex: the octets of the binary string that atob returns
base64ToHex(bin) == [i \in 1..Len(bin) |-> ByteToOctet(bin[i])] \o <<>>

\* decodePkcs8: the PrivateKeyInfo {algorithm, PrivateKey}
decodePkcs8(bin) ==
    LET Info(algorithm, PrivateKey) ==
            IF ~IsOk(PrivateKey) THEN PrivateKey
            ELSE Ok([algorithm |-> algorithm, PrivateKey |-> PrivateKey.val])
        Key(hexKey, keyPos) ==
            decodeRsaKey(JsSliceFrom(hexKey, JsIndexOf(hexKey, TagSequence, keyPos)))
        Oid(hexKey, algOidPos, algOidLen, start) ==
            Info(hexToUintDot(JsSlice(hexKey, start, JsAdd(start, algOidLen[1]))),
                 Key(hexKey, JsAdd(JsAdd(algOidPos, algOidLen[2]), algOidLen[1])))
        OidLength(hexKey, algOidPos, algOidLen) ==
            IF ~IsOk(algOidLen) THEN algOidLen
            ELSE Oid(hexKey, algOidPos, algOidLen.val,
                     JsAdd(JsAdd(algOidPos, 1), algOidLen.val[2]))
        OidPos(hexKey, algOidPos) ==
            OidLength(hexKey, algOidPos, getLength(hexKey, algOidPos))
        AlgId(hexKey, algorithmIdPos, algIdLen) ==
            IF ~IsOk(algIdLen) THEN algIdLen
            ELSE OidPos(hexKey, JsAdd(JsAdd(algorithmIdPos, 1), algIdLen.val[2]))
        AlgIdPos(hexKey, algorithmIdPos) ==
            AlgId(hexKey, algorithmIdPos, getLength(hexKey, algorithmIdPos))
        Hex(hexKey) == AlgIdPos(hexKey, JsIndexOf(hexKey, TagSequence, 1))
    IN  Hex(base64ToHex(bin))

\* decodePkcs1
decodePkcs1(bin) == decodeRsaKey(base64ToHex(bin))

(***************************************************************************)
(* RsaKey.decode.  A PEM text is given by what key.split("-----") makes of *)
(* it: the number of pieces, the piece after the first delimiter (the      *)
(* label, a sequence of characters) and the binary string that atob        *)
(* returns for the piece after the second delimiter.                       *)
(***************************************************************************)
LabelPkcs8 == <<"B", "E", "G", "I", "N", " ", "P", "R", "I", "V", "A", "T", "E", " ", "K", "E", "Y">>

LabelPkcs1 == <<"B", "E", "G", "I", "N", " ", "R", "S", "A", " ", "P", "R", "I", "V", "A", "T", "E", " ", "K", "E", "Y">>

\* String.prototype.includes
Includes(str, sub) ==
    \E i \in 0..(Len(str) - Len(sub)) : SubSeq(str, i + 1, i + Len(sub)) = sub

decode(key) ==
    LET PrivateKey(info) == IF IsOk(info) THEN Ok(info.val.PrivateKey) ELSE info
    IN  IF key.pieces < 2 THEN Throw("TypeError")
        ELSE IF Includes(key.ident, LabelPkcs8) THEN PrivateKey(decodePkcs8(key.bin))
        ELSE IF Includes(key.ident, LabelPkcs1) THEN decodePkcs1(key.bin)
        ELSE Throw("UnsupportedKey")

(***************************************************************************)
(* Inputs: RSA private keys and their DER encodings (PKCS#1 RSAPrivateKey, *)
(* and PKCS#8 PrivateKeyInfo around it).  A key is given by the big-endian *)
(* bytes of its nine integers, without leading zero bytes.                 *)
(***************************************************************************)
DerLength(n) ==
    IF n < 128 THEN <<n>>
    ELSE IF n < 256 THEN <<129, n>>
    ELSE <<130, n \div 256, n % 256>>

DerInteger(mag) ==
    LET content == IF mag = <<>> THEN <<0>>
                   ELSE IF mag[1] >= 128 THEN <<0>> \o mag ELSE mag
    IN  <<2>> \o DerLength(Len(content)) \o content

DerSequence(content) == <<48>> \o DerLength(Len(content)) \o content

DerOctetString(content) == <<4>> \o DerLength(Len(content)) \o content

KeyFields ==
    <<"version", "modulus", "publicExponent", "privateExponent", "prime1",
      "prime2", "exponent1", "exponent2", "coefficient">>

Pkcs1Der(k) ==
    DerSequence(DerInteger(k.version) \o DerInteger(k.modulus)
                \o DerInteger(k.publicExponent) \o DerInteger(k.privateExponent)
                \o DerInteger(k.prime1) \o DerInteger(k.prime2)
                \o DerInteger(k.exponent1) \o DerInteger(k.exponent2)
                \o DerInteger(k.coefficient))

\* rsaEncryption, 1.2.840.113549.1.1.1
OidRsaEncryption == <<6, 9, 42, 134, 72, 134, 247, 13, 1, 1, 1>>

\* id-ecPublicKey, 1.2.840.10045.2.1
OidEcPublicKey == <<6, 7, 42, 134, 72, 206, 61, 2, 1>>

DerNull == <<5, 0>>

\* PrivateKeyInfo {version, privateKeyAlgorithm, privateKey}
Pkcs8Info(version, oid, key) ==
    DerSequence(DerInteger(version) \o DerSequence(oid \o DerNull)
                \o DerOctetString(key))

Pkcs8Der(k, oid) == Pkcs8Info(<<>>, oid, Pkcs1Der(k))

TagBitString == 3

\* the length octet of the indefinite form, and a long-form length octet
\* that announces ten length octets
LengthIndefinite == 128

LengthReserved == 138

\* the RSAPrivateKey of k with lengthOctet as the only length octet of its
\* last field
Pkcs1LastLength(k, lengthOctet) ==
    DerSequence(DerInteger(k.version) \o DerInteger(k.modulus)
                \o DerInteger(k.publicExponent)
                \o DerInteger(k.privateExponent) \o DerInteger(k.prime1)
                \o DerInteger(k.prime2) \o DerInteger(k.exponent1)
                \o DerInteger(k.exponent2)
                \o <<2, lengthOctet>> \o Tail(Tail(DerInteger(k.coefficient))))

\* Encodings that are not a valid RSAPrivateKey: with version 1, with the
\* field prime1 under the tag of a BIT STRING, without the last field, or
\* with a length octet 0x80 or 0x8A on the last field.
Pkcs1Damaged(k, damage) ==
    IF damage = "indefinite" THEN Pkcs1LastLength(k, LengthIndefinite)
    ELSE IF damage = "reserved" THEN Pkcs1LastLength(k, LengthReserved)
    ELSE IF damage = "version" THEN Pkcs1Der([k EXCEPT !.version = <<1>>])
    ELSE IF damage = "mistagged"
    THEN DerSequence(DerInteger(k.version) \o DerInteger(k.modulus)
                     \o DerInteger(k.publicExponent)
                     \o DerInteger(k.privateExponent)
                     \o <<TagBitString>> \o Tail(DerInteger(k.prime1))
                     \o DerInteger(k.prime2) \o DerInteger(k.exponent1)
                     \o DerInteger(k.exponent2) \o DerInteger(k.coefficient))
    ELSE IF damage = "missing"
    THEN DerSequence(DerInteger(k.version) \o DerInteger(k.modulus)
                     \o DerInteger(k.publicExponent)
                     \o DerInteger(k.privateExponent) \o DerInteger(k.prime1)
                     \o DerInteger(k.prime2) \o DerInteger(k.exponent1)
                     \o DerInteger(k.exponent2))
    ELSE Pkcs1Der(k)

\* a body that lost its last octet
Truncated(der) == SubSeq(der, 1, Len(der) - 1)

\* p = 61, q = 53, e = 17: the modulus 3233 needs no sign pad in DER
KeyTextbook ==
    [version |->
        <<>>,
     modulus |->
        <<12, 161>>,
     publicExponent |->
        <<17>>,
     privateExponent |->
        <<10, 193>>,
     prime1 |->
        <<61>>,
     prime2 |->
        <<53>>,
     exponent1 |->
        <<53>>,
     exponent2 |->
        <<49>>,
     coefficient |->
        <<38>>]

\* p = 251, q = 241, e = 7: the modulus 60491 has its top bit set
KeyPadded ==
    [version |->
        <<>>,
     modulus |->
        <<236, 75>>,
     publicExponent |->
        <<7>>,
     privateExponent |->
        <<66, 247>>,
     prime1 |->
        <<251>>,
     prime2 |->
        <<241>>,
     exponent1 |->
        <<143>>,
     exponent2 |->
        <<103>>,
     coefficient |->
        <<25>>]

\* a 496-bit modulus (62 octets, top bit set) with d = 5
KeySign ==
    [version |->
        <<>>,
     modulus |->
        <<144, 48, 95, 239, 179, 10, 2, 49, 157, 213, 39, 71, 49, 15, 234, 60, 19,
        146, 9, 120, 166, 180, 168, 130, 112, 58, 55, 38, 245, 178, 84, 84, 186,
        175, 226, 157, 240, 31, 40, 28, 232, 237, 224, 121, 213, 102, 48, 94,
        193, 79, 62, 118, 35, 19, 113, 32, 238, 156, 169, 25, 193, 79>>,
     publicExponent |->
        <<57, 172, 243, 44, 174, 4, 0, 224, 165, 136, 118, 28, 122, 6, 93, 177,
        161, 109, 157, 99, 117, 225, 221, 0, 249, 176, 226, 220, 98, 71, 84, 79,
        250, 42, 76, 119, 247, 46, 97, 102, 5, 70, 202, 103, 55, 161, 227, 106,
        118, 109, 227, 128, 40, 85, 172, 173, 135, 59, 218, 48, 130, 221>>,
     privateExponent |->
        <<5>>,
     prime1 |->
        <<148, 235, 223, 102, 161, 183, 121, 137, 183, 105, 41, 211, 185, 128,
        102, 180, 68, 41, 238, 86, 219, 208, 222, 100, 93, 56, 123, 37, 198, 95,
        53>>,
     prime2 |->
        <<247, 221, 102, 188, 208, 78, 177, 170, 230, 114, 147, 18, 190, 73, 234,
        195, 144, 111, 78, 46, 217, 237, 94, 221, 17, 228, 11, 225, 218, 26, 243>>,
     exponent1 |->
        <<5>>,
     exponent2 |->
        <<5>>,
     coefficient |->
        <<133, 202, 76, 36, 135, 176, 133, 172, 17, 217, 65, 31, 27, 102, 243,
        110, 237, 200, 6, 199, 205, 237, 201, 66, 35, 86, 113, 138, 144, 104,
        134>>]

\* a 904-bit modulus with e = 65537; its PKCS#1 encoding has 538 octets
KeyLong ==
    [version |->
        <<>>,
     modulus |->
        <<131, 173, 222, 201, 145, 255, 246, 64, 148, 168, 151, 205, 246, 23, 143,
        235, 8, 114, 162, 41, 134, 236, 14, 200, 227, 214, 186, 60, 20, 86, 106,
        82, 248, 240, 196, 100, 73, 14, 253, 181, 31, 219, 82, 134, 147, 240,
        19, 2, 48, 49, 255, 201, 202, 214, 10, 10, 178, 245, 205, 50, 140, 112,
        15, 108, 135, 129, 152, 211, 85, 150, 74, 111, 131, 224, 81, 13, 137,
        173, 21, 77, 249, 54, 184, 38, 112, 77, 90, 46, 68, 152, 91, 6, 47, 244,
        176, 89, 106, 174, 53, 81, 218, 117, 147, 9, 231, 219, 166, 136, 221,
        68, 158, 65, 11>>,
     publicExponent |->
        <<1, 0, 1>>,
     privateExponent |->
        <<8, 21, 73, 66, 200, 98, 149, 4, 59, 219, 233, 141, 172, 24, 160, 46, 6,
        83, 187, 30, 159, 120, 168, 35, 174, 208, 196, 151, 225, 139, 184, 117,
        37, 112, 234, 45, 89, 202, 192, 202, 56, 141, 103, 16, 121, 206, 87,
        236, 95, 119, 2, 67, 169, 222, 223, 184, 237, 0, 181, 137, 74, 104, 176,
        21, 0, 217, 106, 250, 82, 244, 69, 253, 245, 129, 155, 149, 224, 220,
        13, 34, 245, 14, 102, 190, 224, 187, 118, 171, 13, 209, 102, 111, 172,
        13, 138, 220, 3, 185, 12, 227, 24, 172, 67, 187, 243, 108, 14, 7, 5,
        188, 100, 111, 65>>,
     prime1 |->
        <<11, 163, 43, 35, 112, 143, 236, 199, 242, 241, 15, 49, 82, 158, 169,
        198, 132, 243, 41, 174, 85, 55, 43, 201, 22, 26, 0, 232, 123, 254, 50,
        232, 65, 52, 123, 189, 19, 77, 67, 72, 82, 88, 189, 204, 232, 9, 31, 21,
        66, 111, 52, 53, 144, 121, 167, 59, 225>>,
     prime2 |->
        <<11, 80, 176, 145, 78, 200, 192, 23, 227, 195, 35, 67, 18, 230, 196, 153,
        63, 24, 221, 85, 161, 169, 67, 225, 4, 94, 183, 138, 219, 136, 167, 53,
        111, 252, 17, 157, 150, 62, 192, 230, 173, 124, 241, 224, 220, 212, 38,
        144, 24, 39, 210, 6, 179, 23, 15, 122, 107>>,
     exponent1 |->
        <<8, 220, 227, 229, 193, 188, 91, 32, 140, 173, 122, 92, 158, 7, 168, 85,
        64, 187, 208, 106, 173, 11, 175, 149, 29, 247, 255, 233, 15, 69, 177,
        143, 160, 217, 79, 195, 216, 7, 103, 206, 148, 168, 113, 36, 181, 50,
        253, 49, 59, 191, 101, 139, 197, 212, 96, 193, 1>>,
     exponent2 |->
        <<10, 220, 23, 138, 110, 117, 199, 191, 101, 238, 156, 66, 60, 186, 212,
        199, 75, 194, 158, 115, 24, 35, 239, 44, 224, 87, 211, 138, 102, 166,
        225, 236, 44, 157, 93, 126, 196, 123, 88, 2, 77, 81, 148, 135, 191, 9,
        178, 53, 43, 169, 212, 46, 111, 229, 219, 10, 31>>,
     coefficient |->
        <<2, 153, 107, 145, 149, 245, 130, 3, 23, 147, 147, 101, 203, 124, 30,
        128, 253, 66, 159, 6, 114, 171, 160, 128, 184, 89, 145, 94, 138, 22,
        254, 108, 234, 228, 250, 253, 68, 159, 248, 215, 64, 199, 153, 132, 164,
        102, 86, 149, 19, 41, 252, 162, 88, 86, 139, 23, 35>>]

\* p = 479, q = 137, e = 3: the modulus 65623 = 0x010057 needs no sign pad
\* and its second octet is zero
KeyZeroOctet ==
    [version |->
        <<>>,
     modulus |->
        <<1, 0, 87>>,
     publicExponent |->
        <<3>>,
     privateExponent |->
        <<169, 75>>,
     prime1 |->
        <<1, 223>>,
     prime2 |->
        <<137>>,
     exponent1 |->
        <<1, 63>>,
     exponent2 |->
        <<91>>,
     coefficient |->
        <<7>>]

Keys == <<KeyTextbook, KeyPadded, KeySign, KeyLong, KeyZeroOctet>>

KeyIds == 1..Len(Keys)

LabelEncrypted == <<"B", "E", "G", "I", "N", " ", "E", "N", "C", "R", "Y", "P", "T", "E", "D", " ", "P", "R", "I", "V", "A", "T", "E", " ", "K", "E", "Y">>

LabelPublic == <<"B", "E", "G", "I", "N", " ", "P", "U", "B", "L", "I", "C", " ", "K", "E", "Y">>

LabelEc == <<"B", "E", "G", "I", "N", " ", "E", "C", " ", "P", "R", "I", "V", "A", "T", "E", " ", "K", "E", "Y">>

LabelSpaced == <<" ", "B", "E", "G", "I", "N", " ", "P", "R", "I", "V", "A", "T", "E", " ", "K", "E", "Y", " ">>

Labels ==
    <<LabelPkcs1, LabelPkcs8, LabelEncrypted, LabelPublic, LabelEc, LabelSpaced>>

Pem(label, bin) == [pieces |-> 5, ident |-> label, bin |-> bin]

\* a text without any "-----": split gives one piece
NoArmour == [pieces |-> 1, ident |-> <<>>, bin |-> <<>>]

(***************************************************************************)
(* bigint arithmetic on limbs (base 256, least significant limb first).    *)
(* A loop of n iterations is run as two halves, so that the evaluation     *)
(* nests to a depth of log n; its variables are carried in a record st.    *)
(***************************************************************************)
Base == 256

BigZero == <<>>

BigOne == <<1>>

\* drop the high zero limbs
BigNorm(a) ==
    LET n == Len(a)
        z == CHOOSE k \in 0..n :
                 /\ k = n \/ a[n - k] # 0
                 /\ \A j \in (n - k + 1)..n : a[j] = 0
    IN  SubSeq(a, 1, n - z)

Limb(a, i) == IF i <= Len(a) THEN a[i] ELSE 0

\* a < b
BigLess(a, b) ==
    IF Len(a) # Len(b) THEN Len(a) < Len(b)
    ELSE IF a = b THEN FALSE
    ELSE LET n == Len(a)
             k == CHOOSE k \in 0..(n - 1) :
                      /\ a[n - k] # b[n - k]
                      /\ \A j \in (n - k + 1)..n : a[j] = b[j]
         IN  a[n - k] < b[n - k]

AddStep(a, b, st) ==
    LET t == Limb(a, st.i) + Limb(b, st.i) + st.carry
    IN  [i |-> st.i + 1, carry |-> t \div Base, acc |-> Append(st.acc, t % Base)]

RECURSIVE AddLoop(_, _, _, _)
AddLoop(a, b, st, n) ==
    IF n = 0 \/ (st.i > Len(a) /\ st.i > Len(b)) THEN st
    ELSE IF n = 1 THEN AddStep(a, b, st)
    ELSE AddLoop(a, b, AddLoop(a, b, st, n \div 2), n - n \div 2)

\* a + b
BigAdd(a, b) ==
    LET Carry(st) == IF st.carry = 0 THEN st.acc ELSE Append(st.acc, st.carry)
    IN  Carry(AddLoop(a, b, [i |-> 1, carry |-> 0, acc |-> <<>>],
                      Max2(Len(a), Len(b))))

SubMulStep(a, b, q, st) ==
    LET t == a[st.i] - q * Limb(b, st.i) - st.borrow
    IN  [i |-> st.i + 1, borrow |-> -(t \div Base), acc |-> Append(st.acc, t % Base)]

RECURSIVE SubMulLoop(_, _, _, _, _)
SubMulLoop(a, b, q, st, n) ==
    IF n = 0 \/ st.i > Len(a) THEN st
    ELSE IF n = 1 THEN SubMulStep(a, b, q, st)
    ELSE SubMulLoop(a, b, q, SubMulLoop(a, b, q, st, n \div 2), n - n \div 2)

\* a - q * b, for a >= q * b and q in 0..255
BigSubMul(a, b, q) ==
    IF q = 0 THEN a
    ELSE BigNorm(SubMulLoop(a, b, q, [i |-> 1, borrow |-> 0, acc |-> <<>>],
                            Len(a)).acc)

\* a - b, for a >= b
BigSub(a, b) == BigSubMul(a, b, 1)

ColumnStep(a, b, j, st) ==
    [i |-> st.i + 1, last |-> st.last, acc |-> st.acc + a[st.i] * b[j - st.i + 1]]

RECURSIVE ColumnLoop(_, _, _, _, _)
ColumnLoop(a, b, j, st, n) ==
    IF n = 0 \/ st.i > st.last THEN st
    ELSE IF n = 1 THEN ColumnStep(a, b, j, st)
    ELSE ColumnLoop(a, b, j, ColumnLoop(a, b, j, st, n \div 2), n - n \div 2)

CarryStep(cols, st) ==
    LET t == Limb(cols, st.i) + st.carry
    IN  [i |-> st.i + 1, carry |-> t \div Base, acc |-> Append(st.acc, t % Base)]

RECURSIVE CarryLoop(_, _, _)
CarryLoop(cols, st, n) ==
    IF n = 0 \/ (st.i > Len(cols) /\ st.carry = 0) THEN st
    ELSE IF n = 1 THEN CarryStep(cols, st)
    ELSE CarryLoop(cols, CarryLoop(cols, st, n \div 2), n - n \div 2)

\* a * b
BigMul(a, b) ==
    IF a = <<>> \/ b = <<>> THEN <<>>
    ELSE LET la == Len(a)
             lb == Len(b)
             cols == [j \in 1..(la + lb - 1) |->
                         ColumnLoop(a, b, j,
                                    [i |-> Max2(1, j - lb + 1),
                                     last |-> Min2(j, la), acc |-> 0],
                                    Min2(la, lb)).acc]
                     \o <<>>
         IN  BigNorm(CarryLoop(cols, [i |-> 1, carry |-> 0, acc |-> <<>>],
                               la + lb + 1).acc)

\* a lower bound of r / m that is at most 2 below it, for r < 256 * m
QuotientGuess(r, m) ==
    LET l == Len(m)
    IN  IF Len(r) < l THEN 0
        ELSE IF l = 1 THEN (Limb(r, 2) * Base + r[1]) \div m[1]
        ELSE (Limb(r, l + 1) * Base * Base + r[l] * Base + r[l - 1])
                 \div (m[l] * Base + m[l - 1] + 1)

\* r - m while r >= m
RECURSIVE CorrectLoop(_, _)
CorrectLoop(r, m) == IF BigLess(r, m) THEN r ELSE CorrectLoop(BigSub(r, m), m)

\* long division, one limb of a at a time from the top
DivStep(a, m, st) ==
    LET r == IF st.r = <<>> /\ a[st.i] = 0 THEN <<>> ELSE <<a[st.i]>> \o st.r
    IN  [i |-> st.i - 1,
         r |-> CorrectLoop(BigSubMul(r, m, QuotientGuess(r, m)), m)]

RECURSIVE DivLoop(_, _, _, _)
DivLoop(a, m, st, n) ==
    IF n = 0 \/ st.i = 0 THEN st
    ELSE IF n = 1 THEN DivStep(a, m, st)
    ELSE DivLoop(a, m, DivLoop(a, m, st, n \div 2), n - n \div 2)

\* a % m, for m > 0
BigMod(a, m) == DivLoop(a, m, [i |-> Len(a), r |-> <<>>], Len(a)).r

\* x % 256n as a number
BigLowLimb(x) == Limb(x, 1)

\* x / 256n
BigShiftLimb(x) == IF x = <<>> THEN <<>> ELSE Tail(x)

\* exponent % 2n === 1n
BigIsOdd(x) == Limb(x, 1) % 2 = 1

\* exponent >> 1n
BigHalf(x) ==
    BigNorm([i \in 1..Len(x) |-> (x[i] \div 2) + (Limb(x, i + 1) % 2) * 128] \o <<>>)

\* 256n ** BigInt(i)
BigPowBase(i) == Zeros(i) \o <<1>>

\* BigInt(number) for 0 <= number <= 255
BigOfSmall(v) == IF v = 0 THEN <<>> ELSE <<v>>

\* BigInt("0x" + digits), digits not empty
BigOfHex(digits) ==
    LET d == IF Len(digits) % 2 = 1 THEN <<0>> \o digits ELSE digits
        n == Len(d) \div 2
    IN  BigNorm([i \in 1..n |-> d[2 * (n - i) + 1] * 16 + d[2 * (n - i) + 2]] \o <<>>)

(***************************************************************************)
(* Rs256: the signature engine.                                            *)
(***************************************************************************)

\* new Sha256().update(message).hex() for the messages of the model
Sha256Hex ==
    <<
      \* SHA-256 of "hello"
      <<2, 12, 15, 2, 4, 13, 11, 10, 5, 15, 11, 0, 10, 3, 0, 14, 2, 6, 14, 8,
        3, 11, 2, 10, 12, 5, 11, 9, 14, 2, 9, 14, 1, 11, 1, 6, 1, 14, 5, 12,
        1, 15, 10, 7, 4, 2, 5, 14, 7, 3, 0, 4, 3, 3, 6, 2, 9, 3, 8, 11, 9, 8,
        2, 4>>,
      \* SHA-256 of the empty message
      <<14, 3, 11, 0, 12, 4, 4, 2, 9, 8, 15, 12, 1, 12, 1, 4, 9, 10, 15, 11,
        15, 4, 12, 8, 9, 9, 6, 15, 11, 9, 2, 4, 2, 7, 10, 14, 4, 1, 14, 4, 6,
        4, 9, 11, 9, 3, 4, 12, 10, 4, 9, 5, 9, 9, 1, 11, 7, 8, 5, 2, 11, 8, 5,
        5>>,
      \* SHA-256 of "abc"
      <<11, 10, 7, 8, 1, 6, 11, 15, 8, 15, 0, 1, 12, 15, 14, 10, 4, 1, 4, 1,
        4, 0, 13, 14, 5, 13, 10, 14, 2, 2, 2, 3, 11, 0, 0, 3, 6, 1, 10, 3, 9,
        6, 1, 7, 7, 10, 9, 12, 11, 4, 1, 0, 15, 15, 6, 1, 15, 2, 0, 0, 1, 5,
        10, 13>>,
      \* SHA-256 of "test"
      <<9, 15, 8, 6, 13, 0, 8, 1, 8, 8, 4, 12, 7, 13, 6, 5, 9, 10, 2, 15, 14,
        10, 10, 0, 12, 5, 5, 10, 13, 0, 1, 5, 10, 3, 11, 15, 4, 15, 1, 11, 2,
        11, 0, 11, 8, 2, 2, 12, 13, 1, 5, 13, 6, 12, 1, 5, 11, 0, 15, 0, 0,
        10, 0, 8>>
    >>

Messages == 1..Len(Sha256Hex)

\* "06 09 60 86 48 01 65 03 04 02 01"
DigestOid == <<0, 6, 0, 9, 6, 0, 8, 6, 4, 8, 0, 1, 6, 5, 0, 3, 0, 4, 0, 2, 0, 1>>

\* "05 00"
DigestOidParams == <<0, 5, 0, 0>>

\* Number.prototype.toString(16)
RECURSIVE ToString16(_)
ToString16(v) == IF v < 16 THEN <<v>> ELSE ToString16(v \div 16) \o <<v % 16>>

\* digestInfo with the length octet written in decimal ("49"), as it is
\* when the conversion toString(16) is left out
digestInfoDecimalLength(message) ==
    <<3, 0, 4, 9, 3, 0, 0, 13>> \o DigestOid \o DigestOidParams
    \o <<0, 4, 2, 0>> \o Sha256Hex[message]

\* digestInfo: the DigestInfo of the message as a hex string
digestInfo(message) ==
    LET hash == Sha256Hex[message]
        algorithmIdentifier == <<3, 0, 0, 13>> \o DigestOid \o DigestOidParams
        digest == <<0, 4, 2, 0>> \o hash
        lengthDec == 13 + 2 + 2 + 32
        hex == ToString16(lengthDec)
        length == IF Len(hex) < 2 THEN <<0>> \o hex ELSE hex
    IN  <<3, 0>> \o length \o algorithmIdentifier \o digest

\* a character of a string that is not a hex digit: the text "undefined"
\* that a template literal makes of a missing array element
Undef == 16

Char(chars, i) == IF Has(chars, i) THEN At(chars, i) ELSE Undef

\* stringToOctetArray with the stop test i > strChars.length - 2: one more
\* iteration, past the end of the string
stringToOctetArrayPastEnd(string) ==
    [n \in 1..(Len(string) \div 2 + 1) |->
        <<Char(string, 2 * n - 2), Char(string, 2 * n - 1)>>] \o <<>>

\* stringToOctetArray: the loop pushes "0x" + strChars[i] + strChars[i + 1]
\* for i = 0, 2, ... and stops after the first i > strChars.length - 4
stringToOctetArray(string) ==
    LET count == Max2(1, Len(string) \div 2)
    IN  [n \in 1..count |->
            <<Char(string, 2 * n - 2), Char(string, 2 * n - 1)>>] \o <<>>

\* emsaEncode: EM = 00 01 PS 00 T as an octet array
emsaEncode(message, emLen) ==
    LET Encode(T, tLen, pLen) ==
            IF ~(emLen < tLen + 11)
            THEN IF pLen >= 8
                 THEN Ok(stringToOctetArray(
                          <<0, 0, 0, 1>> \o ([i \in 1..(2 * pLen) |-> 15] \o <<>>)
                          \o <<0, 0>> \o T))
                 ELSE Throw("TooLong")
            ELSE Throw("TooShort")
        Measure(T, tLen) == Encode(T, tLen, emLen - tLen - 3)
        Digest(T) == Measure(T, Len(T) \div 2)
    IN  Digest(digestInfo(message))

\* parseInt(octet) of an octet "0x" + two characters
ParseIntOctet(octet) ==
    IF octet[1] = Undef THEN NaN
    ELSE IF octet[2] = Undef THEN octet[1]
    ELSE octet[1] * 16 + octet[2]

Os2ipStep(integerArray, st) ==
    LET int == At(integerArray, st.i)
        value == BigMul(BigOfSmall(int), BigPowBase(st.i))
    IN  [i |-> st.i + 1, x |-> BigAdd(st.x, value)]

RECURSIVE Os2ipLoop(_, _, _)
Os2ipLoop(integerArray, st, n) ==
    IF n = 0 \/ ~(st.i < Len(integerArray)) THEN st
    ELSE IF n = 1 THEN Os2ipStep(integerArray, st)
    ELSE Os2ipLoop(integerArray, Os2ipLoop(integerArray, st, n \div 2), n - n \div 2)

\* os2ip: x = sum of integerArray[i] * 256^i, i counted from the first
\* octet; BigInt(NaN) throws a RangeError
os2ip(octetString) ==
    LET integerArray ==
            [i \in 1..Len(octetString) |-> ParseIntOctet(octetString[i])] \o <<>>
    IN  IF \E i \in 1..Len(integerArray) : integerArray[i] = NaN
        THEN Throw("RangeError")
        ELSE Ok(Os2ipLoop(integerArray, [i |-> 0, x |-> BigZero],
                          Len(integerArray)).x)

\* an iteration that shifts the exponent only within the if, for an odd
\* exponent
ModPowStepShiftWhenOdd(modulus, st) ==
    [value |-> IF BigIsOdd(st.exponent)
               THEN BigMod(BigMul(st.value, st.base), modulus)
               ELSE st.value,
     exponent |-> IF BigIsOdd(st.exponent) THEN BigHalf(st.exponent)
                  ELSE st.exponent,
     base |-> BigMod(BigMul(st.base, st.base), modulus),
     iterations |-> st.iterations + 1]

\* one iteration of the loop of modPow; iterations counts them
ModPowStep(modulus, st) ==
    [value |-> IF BigIsOdd(st.exponent)
               THEN BigMod(BigMul(st.value, st.base), modulus)
               ELSE st.value,
     exponent |-> BigHalf(st.exponent),
     base |-> BigMod(BigMul(st.base, st.base), modulus),
     iterations |-> st.iterations + 1]

RECURSIVE ModPowLoop(_, _, _)
ModPowLoop(modulus, st, n) ==
    IF n = 0 \/ ~BigLess(BigZero, st.exponent) THEN st
    ELSE IF n = 1 THEN ModPowStep(modulus, st)
    ELSE ModPowLoop(modulus, ModPowLoop(modulus, st, n \div 2), n - n \div 2)

\* modPow: right-to-left square and multiply, one iteration for each bit of
\* the exponent
ModPowRun(base, exponent, modulus) ==
    ModPowLoop(modulus,
               [value |-> BigOne, exponent |-> exponent,
                base |-> BigMod(base, modulus), iterations |-> 0],
               8 * Len(exponent))

modPow(base, exponent, modulus) == ModPowRun(base, exponent, modulus).value

\* rsasp1: s = message^d mod n when message < n - 1
rsasp1(key, message) ==
    IF key.modulus = <<>> \/ key.privateExponent = <<>> THEN Throw("SyntaxError")
    ELSE LET n == BigOfHex(key.modulus)
             d == BigOfHex(key.privateExponent)
         IN  IF n # BigZero /\ BigLess(message, BigSub(n, BigOne))
             THEN Ok(modPow(message, d, n))
             ELSE Throw("OutOfRange")

I2ospStep(st) ==
    [x |-> BigShiftLimb(st.x),
     octets |-> st.octets \o ToString16(BigLowLimb(st.x))]

RECURSIVE I2ospLoop(_, _)
I2ospLoop(st, n) ==
    IF n = 0 \/ st.x = BigZero THEN st
    ELSE IF n = 1 THEN I2ospStep(st)
    ELSE I2ospLoop(I2ospLoop(st, n \div 2), n - n \div 2)

\* i2osp: the loop appends int.toString(16) of x % 256 while x is not 0;
\* then "00" is prepended while i < padding, where padding is
\* xLen - octets.length / 2 (so once more when the number of digits is odd)
i2osp(x, xLen) ==
    IF BigLess(x, BigPowBase(xLen))
    THEN LET octets == I2ospLoop([x |-> x, octets |-> <<>>], Len(x)).octets
         IN  IF Len(octets) = 2 * xLen THEN Ok(octets)
             ELSE IF Len(octets) < 2 * xLen
             THEN LET padding == (2 * xLen - Len(octets) + 1) \div 2
                  IN  Ok(Zeros(2 * padding) \o octets)
             ELSE Throw("IntegerTooLarge")
    ELSE Throw("IntegerTooLarge")

\* k = (rsaPrivateKey.modulus.length - 2) / 2
ModulusLength(rsaPrivateKey) == Len(rsaPrivateKey.modulus) \div 2

\* sign
sign(key, message) ==
    LET Signature(s, k) == IF ~IsOk(s) THEN s ELSE i2osp(s.val, k)
        Representative(rsaPrivateKey, k, m) ==
            IF ~IsOk(m) THEN m ELSE Signature(rsasp1(rsaPrivateKey, m.val), k)
        Encoded(rsaPrivateKey, k, EM) ==
            IF ~IsOk(EM) THEN EM ELSE Representative(rsaPrivateKey, k, os2ip(EM.val))
        Key(rsaPrivateKey, k) == Encoded(rsaPrivateKey, k, emsaEncode(message, k))
        Decoded(rsaPrivateKey) ==
            IF ~IsOk(rsaPrivateKey) THEN rsaPrivateKey
            ELSE Key(rsaPrivateKey.val, ModulusLength(rsaPrivateKey.val))
    IN  Decoded(decode(key))

\* verify: the method has no parameters and an empty body
verify == Ok(Undefined)

(***************************************************************************)
(* The caller.  RsaKey and Rs256 keep no state of their own: the state is  *)
(* the call the caller made last (op, args), its outcome (result), and the *)
(* signature a successful sign has just produced (signed), which the       *)
(* caller may hand to verify, as tests/Rs256.tests.ts does.  The caller    *)
(* may make a decode or a sign once more with the same arguments; earlier  *)
(* is then the outcome of the call before.  The only field of the two      *)
(* classes is RSAKeyAlgOid of RsaKey, which no method assigns.             *)
(***************************************************************************)
VARIABLES op, args, result, signed, earlier, RSAKeyAlgOid

vars == <<op, args, result, signed, earlier, RSAKeyAlgOid>>

MaxOctets == 2

MaxX == 300

MaxXLen == 2

MaxFlip == 3

MaxExponentOctets == 2

MaxDelta == 2

MaxEmLen == 64

MaxBase == 4

MaxStr == 3

Chars == {"a", "b"}

MaxLengthOctets == 4

MaxFieldLength == 130

MaxPos == 1

MaxExponent == 9

MaxModulus == 6

Formats == {"pkcs1", "pkcs8"}

Oids == {"rsaEncryption", "ecPublicKey"}

\* a label of Labels, or 0 for a text without PEM armour
LabelIds == 0..Len(Labels)

\* what is wrong with the body of a text, if anything
Damages ==
    {"none", "truncated", "missing", "mistagged", "version", "outerVersion",
     "indefinite", "reserved"}

KeyRefs ==
    {r \in [id : KeyIds, format : Formats, label : LabelIds, oid : Oids,
            damage : Damages] :
        /\ r.format = "pkcs1" => r.oid = "rsaEncryption"
        /\ r.damage = "outerVersion" => r.format = "pkcs8"
        /\ r.damage # "none"
              => /\ r.oid = "rsaEncryption"
                 /\ r.label # 0
                 /\ Labels[r.label]
                        = (IF r.format = "pkcs1" THEN LabelPkcs1 ELSE LabelPkcs8)}

\* the DER body a key reference stands for
Body(r) ==
    LET Cut(der) == IF r.damage = "truncated" THEN Truncated(der) ELSE der
    IN  Cut(IF r.format = "pkcs1" THEN Pkcs1Damaged(Keys[r.id], r.damage)
            ELSE Pkcs8Info(IF r.damage = "outerVersion" THEN <<1>> ELSE <<>>,
                           IF r.oid = "rsaEncryption" THEN OidRsaEncryption
                           ELSE OidEcPublicKey,
                           Pkcs1Damaged(Keys[r.id], r.damage)))

\* the PEM text a key reference stands for
PemText(r) ==
    IF r.label = 0 THEN NoArmour
    ELSE Pem(Labels[r.label], Body(r))

\* a valid key under the label of its format, PKCS#8 with the rsaEncryption
\* OID
WellFormed(r) ==
    /\ r.damage = "none"
    /\ r.oid = "rsaEncryption"
    /\ r.label # 0
    /\ Labels[r.label] = (IF r.format = "pkcs1" THEN LabelPkcs1 ELSE LabelPkcs8)

\* the bigint of a small number
RECURSIVE BigOfInt(_)
BigOfInt(v) == IF v = 0 THEN <<>> ELSE <<v % Base>> \o BigOfInt(v \div Base)

OctetSamples == {<<0, 0>>, <<0, 1>>, <<0, 10>>, <<1, 0>>, <<7, 15>>, <<15, 15>>}

RECURSIVE SeqsUpTo(_, _)
SeqsUpTo(S, n) ==
    IF n = 0 THEN {<<>>}
    ELSE LET shorter == SeqsUpTo(S, n - 1)
         IN  shorter \cup {Append(s, x) : s \in shorter, x \in S}

\* the hex digit pair at octet p (from 1) with its top bit flipped
FlipOctet(sig, p) ==
    [i \in 1..Len(sig) |-> IF i = 2 * p - 1 THEN (sig[i] + 8) % 16 ELSE sig[i]] \o <<>>

\* the signatures a caller may pass to verify after sign returned sig: sig,
\* sig with one of its first octets or its last octet changed, sig without
\* its last octet, sig with one more octet, and nothing
SignatureVariants(sig) ==
    [kind : {"same"}, signature : {sig}]
    \cup [kind : {"flipped"},
          signature : {FlipOctet(sig, p) :
                          p \in 1..Min2(MaxFlip, Len(sig) \div 2) \cup {Len(sig) \div 2}}]
    \cup [kind : {"shorter"}, signature : {SubSeq(sig, 1, Len(sig) - 2)}]
    \cup [kind : {"longer"}, signature : {sig \o <<0, 0>>}]
    \cup [kind : {"empty"}, signature : {<<>>}]

NoArgs == [none |-> TRUE]

NoResult == [kind |-> "none"]

Init ==
    /\ op = "idle"
    /\ args = NoArgs
    /\ result = NoResult
    /\ signed = <<>>
    /\ earlier = NoResult
    /\ RSAKeyAlgOid = <<1, 2, 840, 113549, 1, 1, 1>>

\* RsaKey.decode(key): a first call, or the call that has just returned
\* made once more
Decode ==
    /\ \E r \in KeyRefs :
          /\ op = "idle" \/ (op = "decode" /\ args = [key |-> r])
          /\ args' = [key |-> r]
          /\ result' = decode(PemText(r))
    /\ earlier' = IF op = "idle" THEN NoResult ELSE result
    /\ op' = "decode"
    /\ UNCHANGED <<signed, RSAKeyAlgOid>>

\* a sign that keeps its Sha256 object from one call to the next: a second
\* call hashes the earlier message followed by its own, another digest
SignKeepingHash ==
    /\ \E r \in KeyRefs, message \in Messages :
          /\ WellFormed(r)
          /\ \/ op = "idle"
             \/ (op = "sign" /\ args = [key |-> r, message |-> message])
          /\ args' = [key |-> r, message |-> message]
          /\ result' = sign(PemText(r),
                            IF op = "idle" THEN message
                            ELSE (message % Len(Sha256Hex)) + 1)
          /\ signed' = IF IsOk(result')
                       THEN <<[key |-> r, message |-> message,
                               signature |-> result'.val]>>
                       ELSE <<>>
    /\ earlier' = IF op = "idle" THEN NoResult ELSE result
    /\ op' = "sign"
    /\ UNCHANGED RSAKeyAlgOid

\* new Rs256().sign(key, message): a first call, or the call that has just
\* returned made once more
Sign ==
    /\ \E r \in KeyRefs, message \in Messages :
          /\ WellFormed(r)
          /\ \/ op = "idle"
             \/ (op = "sign" /\ args = [key |-> r, message |-> message])
          /\ args' = [key |-> r, message |-> message]
          /\ result' = sign(PemText(r), message)
          /\ signed' = IF IsOk(result')
                       THEN <<[key |-> r, message |-> message,
                               signature |-> result'.val]>>
                       ELSE <<>>
    /\ earlier' = IF op = "idle" THEN NoResult ELSE result
    /\ op' = "sign"
    /\ UNCHANGED RSAKeyAlgOid

\* rs256.verify(key, message, signature), after a sign that returned
Verify ==
    /\ op = "sign"
    /\ signed # <<>>
    /\ \E r \in KeyRefs, message \in Messages,
          v \in SignatureVariants(signed[1].signature) :
          /\ WellFormed(r)
          /\ r.id = signed[1].key.id
          /\ args' = [key |-> r, message |-> message,
                      signature |-> v.signature, variant |-> v.kind]
    /\ result' = verify
    /\ op' = "verify"
    /\ earlier' = NoResult
    /\ UNCHANGED <<signed, RSAKeyAlgOid>>

\* os2ip(octetString)
Os2ip ==
    /\ op = "idle"
    /\ \E octetString \in SeqsUpTo(OctetSamples, MaxOctets) :
          /\ args' = [octetString |-> octetString]
          /\ result' = os2ip(octetString)
    /\ op' = "os2ip"
    /\ earlier' = NoResult
    /\ UNCHANGED <<signed, RSAKeyAlgOid>>

\* i2osp(x, xLen)
I2osp ==
    /\ op = "idle"
    /\ \E v \in 0..MaxX, xLen \in 0..MaxXLen :
          /\ args' = [x |-> BigOfInt(v), xLen |-> xLen]
          /\ result' = i2osp(BigOfInt(v), xLen)
    /\ op' = "i2osp"
    /\ earlier' = NoResult
    /\ UNCHANGED <<signed, RSAKeyAlgOid>>

\* digestInfo(message)
DigestInfo ==
    /\ op = "idle"
    /\ \E message \in Messages :
          /\ args' = [message |-> message]
          /\ result' = Ok(digestInfo(message))
    /\ op' = "digestInfo"
    /\ earlier' = NoResult
    /\ UNCHANGED <<signed, RSAKeyAlgOid>>

\* the keys that decode returns for the well-formed texts of the keys with
\* a short private exponent
DecodedKeys ==
    {decode(PemText(r)).val :
        r \in {q \in KeyRefs :
                  /\ WellFormed(q)
                  /\ Len(Keys[q.id].privateExponent) <= MaxExponentOctets
                  /\ IsOk(decode(PemText(q)))}}

\* message representatives at both ends of the range 0 .. n - 1 and past it
Representatives(n) ==
    {BigOfInt(v) : v \in 0..MaxDelta}
    \cup {BigSub(n, BigOfInt(v)) : v \in 1..MaxDelta}
    \cup {BigAdd(n, BigOfInt(v)) : v \in 0..MaxDelta}

\* rsasp1(key, message)
Rsasp1 ==
    /\ op = "idle"
    /\ \E key \in DecodedKeys :
          \E message \in Representatives(BigOfHex(key.modulus)) :
              /\ args' = [key |-> key, message |-> message]
              /\ result' = rsasp1(key, message)
    /\ op' = "rsasp1"
    /\ earlier' = NoResult
    /\ UNCHANGED <<signed, RSAKeyAlgOid>>

\* emsaEncode(message, emLen)
EmsaEncode ==
    /\ op = "idle"
    /\ \E message \in Messages, emLen \in 0..MaxEmLen :
          /\ args' = [message |-> message, emLen |-> emLen]
          /\ result' = emsaEncode(message, emLen)
    /\ op' = "emsaEncode"
    /\ earlier' = NoResult
    /\ UNCHANGED <<signed, RSAKeyAlgOid>>

\* constTimeCompStr(x, y)
ConstTimeCompStr ==
    /\ op = "idle"
    /\ \E x \in SeqsUpTo(Chars, MaxStr), y \in SeqsUpTo(Chars, MaxStr) :
          /\ args' = [x |-> x, y |-> y]
          /\ result' = Ok(constTimeCompStr(x, y))
    /\ op' = "constTimeCompStr"
    /\ earlier' = NoResult
    /\ UNCHANGED <<signed, RSAKeyAlgOid>>

\* the length len in n octets, most significant first
RECURSIVE LengthOctets(_, _)
LengthOctets(len, n) ==
    IF n = 0 THEN <<>>
    ELSE Append(LengthOctets(len \div Base, n - 1), ByteToOctet(len % Base))

\* an INTEGER of len content octets at position pos, its length in the short
\* form (n = 0) or in the long form of n length octets, and an octet after it
FieldAt(pos, n, len) ==
    [k \in 1..pos |-> TagSequence] \o <<TagInteger>>
        \o (IF n = 0 THEN <<ByteToOctet(len)>>
            ELSE <<<<8, n>>>> \o LengthOctets(len, n))
        \o [k \in 1..len |-> ByteToOctet(k % Base)] \o <<<<15, 15>>>>

\* getLength and slice on the value at pos
GetLength ==
    /\ op = "idle"
    /\ \E pos \in 0..MaxPos, n \in 0..MaxLengthOctets,
          len \in 0..MaxFieldLength \cup {Base - 1, Base, Base + 1} :
          /\ n = 0 => len < 128
          /\ n = 1 => len < Base
          /\ args' = [hexArray |-> FieldAt(pos, n, len), pos |-> pos]
          /\ result' = Field(FieldAt(pos, n, len), pos)
    /\ op' = "getLength"
    /\ earlier' = NoResult
    /\ UNCHANGED <<signed, RSAKeyAlgOid>>

\* modPow(base, exponent, modulus), for small numbers and for numbers of
\* two limbs
ModPow ==
    /\ op = "idle"
    /\ \E base \in 0..MaxBase \cup {Base + 1},
          exponent \in 0..MaxExponent \cup {Base + 1},
          modulus \in 1..MaxModulus \cup {Base + 1} :
          /\ args' = [base |-> base, exponent |-> exponent, modulus |-> modulus]
          /\ result' = Ok(modPow(BigOfInt(base), BigOfInt(exponent),
                                 BigOfInt(modulus)))
    /\ op' = "modPow"
    /\ earlier' = NoResult
    /\ UNCHANGED <<signed, RSAKeyAlgOid>>

\* the call is over: the caller is free to make the next one
Return ==
    /\ op # "idle"
    /\ op' = "idle"
    /\ args' = NoArgs
    /\ result' = NoResult
    /\ signed' = <<>>
    /\ earlier' = NoResult
    /\ UNCHANGED RSAKeyAlgOid

Next == Decode \/ Sign \/ Verify \/ Os2ip \/ I2osp \/ DigestInfo \/ Rsasp1 \/ EmsaEncode
           \/ ModPow \/ GetLength \/ ConstTimeCompStr \/ Return

Spec == Init /\ [][Next]_vars

(***************************************************************************)
(* Properties.                                                             *)
(***************************************************************************)

\* the modulus length k of a key in octets, ceil(bitLen(n) / 8)
KeyOctets(r) == Len(Keys[r.id].modulus)

\* the caller has just verified under the key that made the signature
Verified == op = "verify" /\ args.key.id = signed[1].key.id

Accepted == result = Ok(JsBoolean(TRUE))

Rejected == result = Ok(JsBoolean(FALSE))

\* C1: verify(K, m, sign(K, m)) returns true, for every valid key K and
\* every message m.
VerifyAcceptsSignature ==
    (Verified /\ args.variant = "same" /\ args.message = signed[1].message)
        => Accepted

\* C2: verify(K, m', sign(K, m)) returns false when m' differs from m (and
\* so does its digest).
VerifyRejectsOtherMessage ==
    (/\ Verified
     /\ args.variant = "same"
     /\ args.message # signed[1].message
     /\ Sha256Hex[args.message] # Sha256Hex[signed[1].message])
        => Rejected

\* C3: verify(K, m, sig') returns false when sig' is sign(K, m) with exactly
\* one byte changed, at any position.
VerifyRejectsFlippedByte ==
    (Verified /\ args.variant = "flipped" /\ args.message = signed[1].message)
        => Rejected

\* C4: verify with a signature whose length differs from k returns the
\* value false and raises no error.
VerifyRejectsWrongLength ==
    (Verified /\ Len(args.signature) # 2 * KeyOctets(args.key)) => Rejected

\* C5: when k >= 62 and sign returns, the signature is exactly
\* k = ceil(bitLen(n) / 8) octets long, 2k hex digits, whatever the value
\* of the signature integer.
SignatureLength ==
    (op = "sign" /\ IsOk(result) /\ KeyOctets(args.key) >= 62)
        => Len(result.val) = 2 * KeyOctets(args.key)

\* the unsigned value of a decoded component, as hex digits without
\* leading zeros: of a number (version, publicExponent) or of a hex string
Unsigned(v, field) ==
    IF field \in {"version", "publicExponent"}
    THEN IF v.num = "finite" THEN StripLeadingZeros(v.digits) ELSE <<v.num>>
    ELSE StripLeadingZeros(v)

\* the unsigned value of an INTEGER field of a key, as hex digits
FieldValue(mag) ==
    StripLeadingZeros(Flatten([i \in 1..Len(mag) |-> ByteToOctet(mag[i])] \o <<>>))

\* a decoded key holds the values of the nine INTEGER fields of key id
HoldsKey(decoded, id) ==
    \A i \in 1..Len(KeyFields) :
        Unsigned(decoded[KeyFields[i]], KeyFields[i]) = FieldValue(Keys[id][KeyFields[i]])

\* C6: decode of the PEM of a well-formed PKCS#1 RSAPrivateKey, of any
\* modulus length and outer length encoding, returns the unsigned values of
\* its nine INTEGER fields, in order.
DecodePkcs1Values ==
    (op = "decode" /\ WellFormed(args.key) /\ args.key.format = "pkcs1")
        => (IsOk(result) /\ HoldsKey(result.val, args.key.id))

\* the reference to the same key in the other PEM flavour
OtherFlavour(r) ==
    IF r.format = "pkcs1"
    THEN [r EXCEPT !.format = "pkcs8", !.label = 2]
    ELSE [r EXCEPT !.format = "pkcs1", !.label = 1]

\* C7: decode of the PKCS#1 PEM of a key and decode of the PKCS#8 PEM that
\* wraps the same key return results equal in all nine components.
FlavoursAgree ==
    (op = "decode" /\ WellFormed(args.key))
        => (IsOk(result) /\ result = decode(PemText(OtherFlavour(args.key))))

\* the label is exactly one of the two accepted labels
AcceptedLabel(r) ==
    r.label # 0 /\ Labels[r.label] \in {LabelPkcs1, LabelPkcs8}

\* C8: decode raises the unsupported-key-format error, and no other kind
\* of error, for every input whose label is not exactly one of the two
\* accepted labels: other labels, labels that contain an accepted label,
\* and texts without any five-dash delimiter.
UnsupportedLabels ==
    (op = "decode" /\ ~AcceptedLabel(args.key)) => result = Throw("UnsupportedKey")

\* C9: in PKCS#8 mode decode returns a key only when the OID of the
\* AlgorithmIdentifier is rsaEncryption, and raises the
\* unsupported-key-format error otherwise.
Pkcs8OidChecked ==
    (/\ op = "decode"
     /\ args.key.format = "pkcs8"
     /\ args.key.label # 0
     /\ Labels[args.key.label] = LabelPkcs8)
        => (/\ IsOk(result) => args.key.oid = "rsaEncryption"
            /\ args.key.oid # "rsaEncryption" => result = Throw("UnsupportedKey"))

\* C10: OS2IP and I2OSP are mutually inverse: OS2IP(I2OSP(x, k)) = x for
\* 0 <= x < 256^k, and I2OSP(OS2IP(b), |b|) = b for every byte string b of
\* length >= 1, leading zero bytes kept.
OctetIntegerRoundTrip ==
    /\ (op = "i2osp" /\ BigLess(args.x, BigPowBase(args.xLen)))
           => (IsOk(result) /\ os2ip(stringToOctetArray(result.val)) = Ok(args.x))
    /\ (op = "os2ip" /\ Len(args.octetString) >= 1)
           => (/\ IsOk(result)
               /\ i2osp(result.val, Len(args.octetString))
                      = Ok(Flatten(args.octetString)))

\* 30 31 30 0D 06 09 60 86 48 01 65 03 04 02 01 05 00 04 20
DigestInfoPrefix ==
    <<3, 0, 3, 1, 3, 0, 0, 13, 0, 6, 0, 9, 6, 0, 8, 6, 4, 8, 0, 1, 6, 5, 0, 3,
      0, 4, 0, 2, 0, 1, 0, 5, 0, 0, 0, 4, 2, 0>>

\* C11: for every message the DigestInfo T is exactly 51 octets: the
\* 19-octet prefix 30 31 30 0D 06 09 60 86 48 01 65 03 04 02 01 05 00 04 20
\* followed by the 32 octets of the SHA-256 digest of the message.
DigestInfoLayout ==
    op = "digestInfo"
        => (/\ result = Ok(DigestInfoPrefix \o Sha256Hex[args.message])
            /\ Len(DigestInfoPrefix) = 2 * 19
            /\ Len(Sha256Hex[args.message]) = 2 * 32
            /\ Len(result.val) = 2 * 51)

DigestInfoBuilt ==
    /\ op = "digestInfo"
    /\ args.message = 3
    /\ IsOk(result)
    /\ SubSeq(result.val, 39, 102) = Sha256Hex[3]

\* C12: sign raises the message-too-long error for every key with k <= 61,
\* and returns a signature for a key with k = 62, where the padding PS has
\* exactly 8 octets.
ShortKeysRefused ==
    op = "sign"
        => (/\ KeyOctets(args.key) <= 61 => result = Throw("TooLong")
            /\ KeyOctets(args.key) = 62 => IsOk(result))

\* C13: the message representative m is refused with the out-of-range error
\* if and only if m >= n: every m with 0 <= m <= n - 1 goes to the modular
\* exponentiation, every m >= n raises.
RepresentativeRange ==
    op = "rsasp1"
        => (/\ BigLess(args.message, BigOfHex(args.key.modulus))
                   => result = Ok(modPow(args.message,
                                         BigOfHex(args.key.privateExponent),
                                         BigOfHex(args.key.modulus)))
            /\ ~BigLess(args.message, BigOfHex(args.key.modulus))
                   => result = Throw("OutOfRange"))

\* C14: decode of a valid PKCS#1 body truncated by one byte, so that the
\* declared length of an INTEGER runs past the end of the buffer, raises the
\* malformed-key error and never returns a key.
TruncatedBodyRefused ==
    (op = "decode" /\ args.key.format = "pkcs1" /\ args.key.damage = "truncated")
        => result = Throw("MalformedKey")

\* C15: decode of a PKCS#1 body in which one of the nine fields is missing
\* or carries a tag other than INTEGER raises the malformed-key error: it
\* returns no key and fails with no other kind of error.
DamagedFieldRefused ==
    (/\ op = "decode"
     /\ args.key.format = "pkcs1"
     /\ args.key.damage \in {"missing", "mistagged"})
        => result = Throw("MalformedKey")

\* C16: decode raises the malformed-key error whenever the version INTEGER
\* of the key, of the PrivateKeyInfo or of the RSAPrivateKey, is not 0.
VersionChecked ==
    (op = "decode" /\ args.key.damage \in {"version", "outerVersion"})
        => result = Throw("MalformedKey")

\* the content octets of the DER INTEGER of a magnitude
IntegerContent(mag) ==
    IF mag = <<>> THEN <<0>> ELSE IF mag[1] >= 128 THEN <<0>> \o mag ELSE mag

\* the content octets that count: all of them, but for a first octet 0x00
\* that is followed by an octet with its high bit set
ValueOctets(content) ==
    IF Len(content) >= 2 /\ content[1] = 0 /\ content[2] >= 128
    THEN Tail(content)
    ELSE content

\* C17: the decoder drops the first content byte of an INTEGER exactly when
\* that byte is 0x00 and the next byte has its high bit set; otherwise every
\* content byte counts, so the decoded modulus is the unsigned big-endian
\* value of its content also when the first content byte is not zero.
ModulusOctetsKept ==
    (/\ op = "decode"
     /\ WellFormed(args.key)
     /\ args.key.format = "pkcs1"
     /\ IsOk(result))
        => result.val.modulus
               = Flatten([i \in 1..Len(ValueOctets(IntegerContent(Keys[args.key.id].modulus)))
                             |-> ByteToOctet(ValueOctets(IntegerContent(Keys[args.key.id].modulus))[i])]
                         \o <<>>)

\* the number of bits of the integer that a hex string denotes
BitLength(digits) == Len(StripLeadingZeros(BitsOf(digits)))

\* C19: the length k that sign uses for the encoded message and for the
\* signature is ceil(bitLen(n) / 8) for the decoded modulus n, for every key,
\* with or without a leading 0x00 in the DER modulus.
SignLengthOfModulus ==
    LET Agree(key) ==
            IsOk(key)
                => ModulusLength(key.val) = (BitLength(key.val.modulus) + 7) \div 8
    IN  op = "sign" => Agree(decode(PemText(args.key)))

\* the octets of a hex string with an even number of digits
OctetsOf(digits) ==
    [i \in 1..(Len(digits) \div 2) |-> <<digits[2 * i - 1], digits[2 * i]>>] \o <<>>

\* C20: for every k >= 62 and every message the encoded message has exactly
\* k octets: 0x00, 0x01, k - 54 octets 0xFF, 0x00, then the 51 octets of the
\* DigestInfo T; the padding is never shorter than 8 octets.
EncodedMessageLayout ==
    (op = "emsaEncode" /\ args.emLen >= 62)
        => (/\ IsOk(result)
            /\ Len(result.val) = args.emLen
            /\ result.val
                  = <<(<<0, 0>>), (<<0, 1>>)>>
                    \o ([i \in 1..(args.emLen - 54) |-> <<15, 15>>] \o <<>>)
                    \o <<(<<0, 0>>)>>
                    \o OctetsOf(DigestInfoPrefix \o Sha256Hex[args.message])
            /\ Len(SelectSeq(result.val, LAMBDA o : o = <<15, 15>>)) >= 8)

EncodedAtShortestKey ==
    /\ op = "emsaEncode"
    /\ args.emLen = 62
    /\ IsOk(result)
    /\ SubSeq(result.val, 3, 10) = [i \in 1..8 |-> <<15, 15>>]
    /\ result.val[11] = <<0, 0>>

\* a decode or a sign has just been made a second time with the same
\* arguments
Repeated == op \in {"decode", "sign"} /\ earlier # NoResult

Os2ipBigEndian ==
    op = "os2ip" => result = Ok(BigOfHex(Flatten(args.octetString)))

\* C22: for 0 <= x < 256^k, i2osp(x, k) returns exactly k octets in
\* big-endian order, two hex digits for each octet, padded on the left with
\* 0x00 octets; it raises the integer-too-large error if and only if
\* x >= 256^k.
I2ospBigEndian ==
    op = "i2osp"
        => IF BigLess(args.x, BigPowBase(args.xLen))
           THEN result
                  = Ok(Flatten([j \in 1..args.xLen |->
                                   ByteToOctet(Limb(args.x, args.xLen + 1 - j))]
                               \o <<>>))
           ELSE result = Throw("IntegerTooLarge")

\* C23: for every valid key with k >= 62 and every message the message
\* representative is smaller than the modulus: sign never raises the
\* out-of-range error.
RepresentativeBelowModulus ==
    (op = "sign" /\ KeyOctets(args.key) >= 62) => result # Throw("OutOfRange")

\* base^exponent mod modulus, by b^e = b^(e div 2) * b^(e - e div 2)
RECURSIVE PowerMod(_, _, _)
PowerMod(b, e, m) ==
    IF e = 0 THEN 1 % m
    ELSE IF e = 1 THEN b % m
    ELSE (PowerMod(b, e \div 2, m) * PowerMod(b, e - e \div 2, m)) % m

\* C24: modPow(base, exponent, modulus) is base^exponent mod modulus for
\* every base >= 0, exponent >= 0 and modulus >= 1, exponent 0 and modulus 1
\* included; the result lies in 0 .. modulus - 1.
ModPowValue ==
    op = "modPow"
        => (/\ result = Ok(BigOfInt(PowerMod(args.base, args.exponent, args.modulus)))
            /\ BigLess(result.val, BigOfInt(args.modulus)))

\* the number of binary digits of v: 0 for 0
RECURSIVE BitLengthOf(_)
BitLengthOf(v) == IF v = 0 THEN 0 ELSE 1 + BitLengthOf(v \div 2)

\* the state the loop of modPow ends in, for the call of this state
ModPowEnd ==
    ModPowRun(BigOfInt(args.base), BigOfInt(args.exponent), BigOfInt(args.modulus))

\* C30: modPow terminates: the exponent is halved on every iteration, so the
\* loop ends, with the exponent at 0, after exactly bitLen(exponent)
\* iterations, none for exponent 0.
ModPowIterations ==
    op = "modPow"
        => (/\ ModPowEnd.exponent = BigZero
            /\ ModPowEnd.iterations = BitLengthOf(args.exponent))

\* an exponent of two limbs, even at its first halving, has been run
ModPowLongExponent ==
    /\ op = "modPow"
    /\ args.exponent = Base + 1
    /\ ModPowEnd.iterations = 9

\* the value of octets read most significant first
RECURSIVE BigEndianValue(_)
BigEndianValue(octets) ==
    IF octets = <<>> THEN 0
    ELSE Base * BigEndianValue(SubSeq(octets, 1, Len(octets) - 1))
         + OctetValue(octets[Len(octets)])

\* C25: getLength returns (L, 1) for a short-form length octet L < 0x80, and
\* for a long-form octet 0x80 | n with 1 <= n <= 4 the big-endian value of
\* the next n octets with n + 1 length octets; the value is then sliced to
\* exactly that many content octets, those after the length octets.
GetLengthForms ==
    op = "getLength"
        => LET Holds(len, numLen) ==
                   /\ result = Ok([lengths |-> <<len, numLen>>,
                                   hexArr |-> SubSeq(args.hexArray,
                                                     args.pos + numLen + 2,
                                                     args.pos + numLen + 1 + len)])
                   /\ Len(result.val.hexArr) = len
               Long(n) ==
                   n \in 1..4
                       => Holds(BigEndianValue(SubSeq(args.hexArray, args.pos + 3,
                                                      args.pos + 2 + n)),
                                n + 1)
               First(firstLen) ==
                   IF firstLen < 128 THEN Holds(firstLen, 1)
                   ELSE Long(firstLen - 128)
           IN  First(OctetValue(At(args.hexArray, args.pos + 1)))

\* a value behind 0x82 0x01 0x01 has been sliced to its 257 content octets
LongFormSliced ==
    /\ op = "getLength"
    /\ At(args.hexArray, args.pos + 1) = <<8, 2>>
    /\ IsOk(result)
    /\ result.val.lengths = <<Base + 1, 3>>
    /\ Len(result.val.hexArr) = Base + 1

\* what decodePkcs8 returns when the AlgorithmIdentifier is found at the second
\* element of the outer SEQUENCE and the key at the content of the OCTET
\* STRING: the octets of the OID and the decoded content
ByBoundaries(oid, content) ==
    LET Info(PrivateKey) ==
            IF ~IsOk(PrivateKey) THEN PrivateKey
            ELSE Ok([algorithm |-> SubSeq(oid, 3, Len(oid)),
                     PrivateKey |-> PrivateKey.val])
    IN  Info(decodeRsaKey(base64ToHex(content)))

\* C26: the PKCS#8 decoder walks the structure by its TLV boundaries: the
\* AlgorithmIdentifier it reads is the second element of the outer SEQUENCE
\* and the inner key is exactly the content of the OCTET STRING, whatever
\* octet values (0x30, 0x02) occur in the length and content octets before
\* them.
Pkcs8Boundaries ==
    (/\ op = "decode"
     /\ args.key.format = "pkcs8"
     /\ args.key.damage = "none"
     /\ args.key.label # 0
     /\ Labels[args.key.label] = LabelPkcs8)
        => (/\ decodePkcs8(Body(args.key))
                = ByBoundaries(IF args.key.oid = "rsaEncryption"
                               THEN OidRsaEncryption ELSE OidEcPublicKey,
                               Pkcs1Der(Keys[args.key.id]))
            /\ result = decodeRsaKey(base64ToHex(Pkcs1Der(Keys[args.key.id]))))

\* C27: constTimeCompStr(x, y) is true exactly when x and y are the same
\* string.
SameStringOnly ==
    op = "constTimeCompStr" => result = Ok(JsBoolean(args.x = args.y))

\* a string has been compared with a proper prefix of it, and with itself
PrefixCompared ==
    /\ op = "constTimeCompStr"
    /\ Len(args.x) < Len(args.y)
    /\ args.x = SubSeq(args.y, 1, Len(args.x))
    /\ Len(args.x) > 0
    /\ Rejected

\* the state in which the loop of constTimeCompStr ends for this call
ConstTimeEnd == ConstTimeLoop(args.x, args.y, [i |-> 0, mismatch |-> 0])

\* C28: constTimeCompStr makes no early exit: for two strings of the same
\* length L it examines all L positions, wherever the first mismatch is.
AllPositionsExamined ==
    (op = "constTimeCompStr" /\ Len(args.x) = Len(args.y))
        => ConstTimeEnd.i = Len(args.x)

\* strings of the greatest length that differ at the first position have been
\* compared to the end
MismatchAtFirstPosition ==
    /\ op = "constTimeCompStr"
    /\ Len(args.x) = MaxStr
    /\ Len(args.y) = MaxStr
    /\ args.x[1] # args.y[1]
    /\ ConstTimeEnd.i = MaxStr
    /\ Rejected

\* C29: decode terminates on every input: for every DER body, well-formed or
\* not, length octets 0x80 and 0x8A-0x8F included, each iteration of the loop
\* that extracts the INTEGERs shortens the remaining array, and the call ends
\* by returning a key or raising an error.
DecodeTerminates ==
    op = "decode" => result # Diverges

====
